---- MODULE Spec2Model ----
(***************************************************************************)
(* A model of TronTxDecoder (src/decoder.js): the selector resolver, the   *)
(* type canonicalizer, the parameter decoders, the revert-message          *)
(* extractor and the three decode-by-id entry points.                      *)
(*                                                                         *)
(* JavaScript strings are sequences of one-character strings, so that      *)
(* concatenation, slicing and hex parsing are computed as the code         *)
(* computes them.  A JavaScript value that may be a string, null or        *)
(* undefined is a tagged record (Str, Null, Undefined, Arr, Obj).          *)
(***************************************************************************)
EXTENDS Integers, Sequences, FiniteSets

\* ------------------------------------------------------------------------
\* Bounds of the model
\* ------------------------------------------------------------------------
MaxAbiLen == 2
MaxWords == 2
MaxTailBytes == 2

\* ------------------------------------------------------------------------
\* JavaScript values
\* ------------------------------------------------------------------------
Null == [tag |-> "null"]
Undefined == [tag |-> "undefined"]
Str(s) == [tag |-> "string", s |-> s]
Arr(items) == [tag |-> "array", items |-> items]
Obj(o) == [tag |-> "object", o |-> o]
\* A decoded native value, kept as the 32-byte word it was read from.
Val(w) == [tag |-> "value", word |-> w]

\* The string conversion that + applies to a string, null or undefined
\* operand.
JsString(v) ==
    CASE v.tag = "string" -> v.s
      [] v.tag = "null" -> <<"n", "u", "l", "l">>
      [] v.tag = "undefined" -> <<"u", "n", "d", "e", "f", "i", "n", "e", "d">>

\* Array.prototype.join(','): null and undefined elements render as ''.
RECURSIVE JoinComma(_)
JoinComma(vals) ==
    IF Len(vals) = 0 THEN <<>>
    ELSE LET h == CASE Head(vals).tag = "string" -> Head(vals).s
                     [] Head(vals).tag \in {"null", "undefined"} -> <<>>
                     [] OTHER -> <<"[", "o", "b", "j", "e", "c", "t", " ",
                                   "O", "b", "j", "e", "c", "t", "]">>
         IN  IF Len(vals) = 1 THEN h
             ELSE h \o <<",">> \o JoinComma(Tail(vals))

\* ------------------------------------------------------------------------
\* Hex strings and Buffer.from(str, 'hex')
\* ------------------------------------------------------------------------
HexDigits == <<"0", "1", "2", "3", "4", "5", "6", "7",
               "8", "9", "a", "b", "c", "d", "e", "f">>
UpperHexDigits == <<"A", "B", "C", "D", "E", "F">>

HexChars == {HexDigits[i] : i \in DOMAIN HexDigits}
            \cup {UpperHexDigits[i] : i \in DOMAIN UpperHexDigits}

IsHexChar(c) == c \in HexChars

HexValue == [c \in HexChars |->
                IF \E i \in DOMAIN HexDigits : HexDigits[i] = c
                THEN (CHOOSE i \in DOMAIN HexDigits : HexDigits[i] = c) - 1
                ELSE (CHOOSE i \in DOMAIN UpperHexDigits : UpperHexDigits[i] = c) + 9]

HexVal(c) == HexValue[c]

\* Buffer.from(s, 'hex'): one byte per pair of hex characters, stopping at
\* the first pair that is not hex; an odd trailing character is dropped.
BufferFromHex(s) ==
    LET pairs == Len(s) \div 2
        bad == {k \in 1..pairs : ~(IsHexChar(s[2 * k - 1]) /\ IsHexChar(s[2 * k]))}
        n == IF bad = {} THEN pairs
             ELSE (CHOOSE k \in bad : \A j \in bad : k <= j) - 1
    IN  [k \in 1..n |-> 16 * HexVal(s[2 * k - 1]) + HexVal(s[2 * k])]

\* ('0' + (byte & 0xFF).toString(16)).slice(-2)
ByteToHex(b) == <<HexDigits[((b % 256) \div 16) + 1], HexDigits[(b % 16) + 1]>>

BytesToHex(bytes) ==
    [i \in 1..(2 * Len(bytes)) |-> ByteToHex(bytes[(i + 1) \div 2])[2 - (i % 2)]]

\* data.replace(/^0x/, '')
StripHexPrefix(s) ==
    IF Len(s) >= 2 /\ s[1] = "0" /\ s[2] = "x" THEN SubSeq(s, 3, Len(s)) ELSE s

\* String.prototype.includes('0x')
Includes0x(s) == \E i \in 1..(Len(s) - 1) : s[i] = "0" /\ s[i + 1] = "x"

\* ------------------------------------------------------------------------
\* utils.keccak256 (ethers): a deterministic digest of the signature,
\* rendered as '0x' followed by 64 lowercase hex characters.  The stand-in
\* below keeps what the decoder relies on: equal strings give equal digests,
\* and the digest has a fixed width of which slice(2, 10) is the selector.
\* ------------------------------------------------------------------------
Alphabet == <<"a", "b", "c", "d", "e", "f", "g", "h", "i", "j", "k", "l", "m",
              "n", "o", "p", "q", "r", "s", "t", "u", "v", "w", "x", "y", "z",
              "0", "1", "2", "3", "4", "5", "6", "7", "8", "9",
              "(", ")", ",", "[", "]", " ", "O">>

CharCode == [c \in {Alphabet[i] : i \in DOMAIN Alphabet} |->
                CHOOSE i \in DOMAIN Alphabet : Alphabet[i] = c]

RECURSIVE WeightedSum(_, _)
WeightedSum(s, k) ==
    IF Len(s) = 0 THEN 0
    ELSE (k * CharCode[Head(s)] + WeightedSum(Tail(s), k + 1)) % 65536

keccak256(msg) ==
    LET s1 == WeightedSum(msg, 1)
        s2 == WeightedSum(msg, 3)
    IN  <<"0", "x">> \o
        [i \in 1..64 |-> HexDigits[((s1 * i + s2 * (i + 1) + i * i) % 16) + 1]]

\* ------------------------------------------------------------------------
\* Type canonicalizer: _handleInputs
\* ------------------------------------------------------------------------
T_tuple == <<"t", "u", "p", "l", "e">>
T_tupleArray == <<"t", "u", "p", "l", "e", "[", "]">>
T_uint256 == <<"u", "i", "n", "t", "2", "5", "6">>
T_address == <<"a", "d", "d", "r", "e", "s", "s">>
T_bool == <<"b", "o", "o", "l">>
T_uintArray == <<"u", "i", "n", "t", "2", "5", "6", "[", "]">>

\* input is Str(type string), Obj(parameter), Arr(components) or Undefined.
\* The result is a string, or undefined where the code falls off its end.
RECURSIVE handleInputs(_)
handleInputs(input) ==
    LET tupleArray == input.tag = "object" /\ input.o.components.tag = "array"
        inp == IF tupleArray THEN input.o.components ELSE input
    IN  IF inp.tag # "array"
        THEN IF inp.tag = "object" /\ Len(inp.o.type) > 0
             THEN Str(inp.o.type)
             ELSE inp
        ELSE LET pushed(x) ==
                     IF x.type = T_tuple
                     THEN handleInputs(x.components)
                     ELSE IF x.type = T_tupleArray
                          THEN Str(JsString(handleInputs(x.components)) \o <<"[", "]">>)
                          ELSE Str(x.type)
                 ret == <<"(">>
                        \o JoinComma([i \in DOMAIN inp.items |-> pushed(inp.items[i])])
                        \o <<")">>
             IN  IF tupleArray THEN Str(ret \o <<"[", "]">>) ELSE Undefined

\* The string _genMethodId hashes.
MethodSignature(methodName, types) ==
    JsString(methodName) \o <<"(">>
    \o JoinComma([i \in DOMAIN types |-> handleInputs(types[i])])
    \o <<")">>

\* utils.keccak256(Buffer.from(input)).slice(2, 10)
genMethodId(methodName, types) ==
    SubSeq(keccak256(MethodSignature(methodName, types)), 3, 10)

\* ------------------------------------------------------------------------
\* utils.defaultAbiCoder.decode (ethers).  Every declared type occupies at
\* least one 32-byte word of the payload head; the codec throws
\* "insufficient data" when the payload is shorter than that, and otherwise
\* yields one value per declared type (kept here as the type's head word).
\* ------------------------------------------------------------------------
AbiCoderDecodeBytes(types, bytes) ==
    IF Len(bytes) < 32 * Len(types)
    THEN [ok |-> FALSE, values |-> <<>>]
    ELSE [ok |-> TRUE,
          values |-> [i \in DOMAIN types |->
                         SubSeq(bytes, 32 * (i - 1) + 1, 32 * i)]]

\* The same codec handed a string: arrayify (ethers 4) accepts only '0x'
\* followed by hex characters, left-pads an odd number of them with '0', and
\* throws on anything else.
AbiCoderDecodeString(types, s) ==
    IF /\ Len(s) >= 2 /\ s[1] = "0" /\ s[2] = "x"
       /\ \A i \in 3..Len(s) : IsHexChar(s[i])
    THEN LET digits == SubSeq(s, 3, Len(s))
         IN  AbiCoderDecodeBytes(types,
                 BufferFromHex(IF Len(digits) % 2 = 1 THEN <<"0">> \o digits
                               ELSE digits))
    ELSE [ok |-> FALSE, values |-> <<>>]

\* ------------------------------------------------------------------------
\* Selector resolver: _extractInfoFromABI
\* ------------------------------------------------------------------------
Truthy(v) == v.tag \in {"array", "object"} \/ (v.tag = "string" /\ Len(v.s) > 0)

\* x => x.type === 'tuple[]' ? x : x.type
TypeOf(x) == IF x.type = T_tupleArray THEN Obj(x) ELSE Str(x.type)
\* x => x.type === 'tuple[]' ? '' : x.name
NameOf(x) == IF x.type = T_tupleArray THEN Str(<<>>) ELSE x.name

TypesOfList(list) ==
    IF Truthy(list) THEN [i \in DOMAIN list.items |-> TypeOf(list.items[i])] ELSE <<>>
NamesOfList(list) ==
    IF Truthy(list) THEN [i \in DOMAIN list.items |-> NameOf(list.items[i])] ELSE <<>>

\* The first four bytes of the call data, rendered as lowercase hex.
MethodIdOf(data) ==
    LET dataBuf == BufferFromHex(StripHexPrefix(data))
    IN  BytesToHex(SubSeq(dataBuf, 1, IF Len(dataBuf) < 4 THEN Len(dataBuf) ELSE 4))

\* dataBuf.subarray(4)
InputsBufOf(data) ==
    LET dataBuf == BufferFromHex(StripHexPrefix(data))
    IN  SubSeq(dataBuf, 5, Len(dataBuf))

NoMatch == [method |-> Null, typesInput |-> <<>>, inputs |-> <<>>,
            namesInput |-> <<>>, typesOutput |-> <<>>, namesOutput |-> <<>>]

\* One call of the reducer on entry obj.  st carries the accumulator, whether
\* the codec has thrown (which ends the reduce), the strings hashed so far
\* and the codec invocations so far.
ReduceStep(st, obj, methodId, inputsBuf) ==
    IF st.thrown \/ obj.type = "constructor" \/ obj.type = "event" THEN st
    ELSE LET method == IF Truthy(obj.name) THEN obj.name ELSE Null
             typesInput == TypesOfList(obj.inputs)
             typesOutput == TypesOfList(obj.outputs)
             namesInput == NamesOfList(obj.inputs)
             namesOutput == NamesOfList(obj.outputs)
             hash == genMethodId(method, typesInput)
             hashed == Append(st.hashed, MethodSignature(method, typesInput))
         IN  IF hash = methodId
             THEN LET dec == AbiCoderDecodeBytes(typesInput, inputsBuf)
                      codec == Append(st.codec, [types |-> typesInput, on |-> "input"])
                  IN  IF dec.ok
                      THEN [acc |-> [method |-> method, typesInput |-> typesInput,
                                     inputs |-> dec.values, namesInput |-> namesInput,
                                     typesOutput |-> typesOutput,
                                     namesOutput |-> namesOutput],
                            thrown |-> FALSE, hashed |-> hashed, codec |-> codec]
                      ELSE [acc |-> st.acc, thrown |-> TRUE,
                            hashed |-> hashed, codec |-> codec]
             ELSE [st EXCEPT !.hashed = hashed]

RECURSIVE Reduce(_, _, _, _)
Reduce(st, abi, methodId, inputsBuf) ==
    IF Len(abi) = 0 THEN st
    ELSE Reduce(ReduceStep(st, Head(abi), methodId, inputsBuf),
                Tail(abi), methodId, inputsBuf)

\* Variant: a scan without a hit is raised as a failure.
extractInfo_ThrowsOnNoMatch(data, abi) ==
    LET st == Reduce([acc |-> NoMatch, thrown |-> FALSE, hashed |-> <<>>, codec |-> <<>>],
                     abi, MethodIdOf(data), InputsBufOf(data))
    IN  IF st.codec = <<>> THEN [st EXCEPT !.thrown = TRUE] ELSE st

\* Variant: the scan stops at the first entry whose selector matches.
extractInfo_StopsAtFirstMatch(data, abi) ==
    LET hits == {i \in DOMAIN abi :
                    /\ abi[i].type \notin {"constructor", "event"}
                    /\ genMethodId(IF Truthy(abi[i].name) THEN abi[i].name ELSE Null,
                                   TypesOfList(abi[i].inputs)) = MethodIdOf(data)}
        scanned == IF hits = {} THEN abi
                   ELSE SubSeq(abi, 1, CHOOSE i \in hits : \A j \in hits : i <= j)
    IN  Reduce([acc |-> NoMatch, thrown |-> FALSE, hashed |-> <<>>, codec |-> <<>>],
               scanned, MethodIdOf(data), InputsBufOf(data))

extractInfoFromABI(data, abi) ==
    Reduce([acc |-> NoMatch, thrown |-> FALSE, hashed |-> <<>>, codec |-> <<>>],
           abi, MethodIdOf(data), InputsBufOf(data))

\* ------------------------------------------------------------------------
\* Parameter decoder
\* ------------------------------------------------------------------------
Throw(why, info) ==
    [kind |-> "throw", error |-> why, hashed |-> info.hashed, codec |-> info.codec]

decodeInputFromData(data, abi) ==
    LET info == extractInfoFromABI(data, abi)
        resultInput == info.acc
        names == resultInput.namesInput
    IN  IF info.thrown THEN Throw("DecodingError", info)
        ELSE [kind |-> "return",
              methodName |-> resultInput.method,
              inputNames |-> names,
              inputTypes |-> resultInput.typesInput,
              decodedInput |->
                  [length |-> Len(names),
                   values |-> [i \in 1..Len(names) |->
                                  IF i <= Len(resultInput.inputs)
                                  THEN Val(resultInput.inputs[i])
                                  ELSE Undefined]],
              hashed |-> info.hashed, codec |-> info.codec]

\* abi.find(i => i.name === method): the first entry, of any type, whose name
\* is strictly equal to method; undefined when there is none.
FindByName(abi, method) ==
    LET hits == {i \in DOMAIN abi : abi[i].name = method}
    IN  IF hits = {} THEN Undefined
        ELSE Obj(abi[CHOOSE i \in hits : \A j \in hits : i <= j])

\* this[l] || (this[l] = null)
NullIfFalsy(names) ==
    [l \in DOMAIN names |-> IF Truthy(names[l]) THEN names[l] ELSE Null]

\* parseInt(pair, 16): the value of the leading hex digits; NaN (which
\* String.fromCharCode turns into character 0) when there is none.
ParseIntHex(pair) ==
    IF Len(pair) = 0 \/ ~IsHexChar(pair[1]) THEN 0
    ELSE IF Len(pair) = 1 \/ ~IsHexChar(pair[2]) THEN HexVal(pair[1])
         ELSE 16 * HexVal(pair[1]) + HexVal(pair[2])

\* The fallback loop: one character per two characters of encodedResult.
RECURSIVE ResMessage(_)
ResMessage(s) ==
    IF Len(s) = 0 THEN <<>>
    ELSE <<ParseIntHex(SubSeq(s, 1, IF Len(s) < 2 THEN Len(s) ELSE 2))>>
         \o ResMessage(SubSeq(s, 3, Len(s)))

decodeResultFromData(data, encodedResult, abi) ==
    LET info == extractInfoFromABI(data, abi)
        resultInput == info.acc
        functionABI == FindByName(abi, resultInput.method)
    IN  IF info.thrown THEN Throw("DecodingError", info)
        ELSE IF functionABI.tag = "undefined" THEN Throw("TypeError", info)
        ELSE IF ~Truthy(functionABI.o.outputs)
        THEN [kind |-> "return", path |-> "void",
              methodName |-> resultInput.method,
              outputNames |-> <<>>, outputTypes |-> <<>>,
              decodedOutput |-> [tag |-> "object", length |-> 0, values |-> <<>>],
              hashed |-> info.hashed, codec |-> info.codec]
        ELSE LET outputType == functionABI.o.outputs.items
                 types == [i \in DOMAIN outputType |-> Str(outputType[i].type)]
                 names == NullIfFalsy(resultInput.namesOutput)
             IN  IF ~Includes0x(encodedResult)
                 THEN [kind |-> "return", path |-> "fallback",
                       methodName |-> resultInput.method,
                       outputNames |-> names, outputTypes |-> types,
                       decodedOutput |-> [tag |-> "string",
                                          chars |-> ResMessage(encodedResult)],
                       hashed |-> info.hashed, codec |-> info.codec]
                 ELSE LET outputs == AbiCoderDecodeString(types, encodedResult)
                          codec == Append(info.codec, [types |-> types, on |-> "result"])
                      IN  IF ~outputs.ok
                          THEN [kind |-> "throw", error |-> "DecodingError",
                                hashed |-> info.hashed, codec |-> codec]
                          ELSE [kind |-> "return", path |-> "codec",
                                methodName |-> resultInput.method,
                                outputNames |-> names, outputTypes |-> types,
                                decodedOutput |->
                                    [tag |-> "object", length |-> Len(types),
                                     values |-> [i \in DOMAIN types |->
                                                    Val(outputs.values[i])]],
                                hashed |-> info.hashed, codec |-> codec]

\* ------------------------------------------------------------------------
\* Revert message extractor
\* ------------------------------------------------------------------------
\* Buffer.toString('utf8') on one- and two-byte sequences; any other byte of
\* 0x80 and above decodes to U+FFFD.
RECURSIVE Utf8ToString(_)
Utf8ToString(bytes) ==
    IF Len(bytes) = 0 THEN <<>>
    ELSE IF bytes[1] < 128 THEN <<bytes[1]>> \o Utf8ToString(Tail(bytes))
    ELSE IF /\ bytes[1] \in 194..223
            /\ Len(bytes) >= 2
            /\ bytes[2] \in 128..191
         THEN <<64 * (bytes[1] % 32) + (bytes[2] % 64)>>
              \o Utf8ToString(SubSeq(bytes, 3, Len(bytes)))
         ELSE <<65533>> \o Utf8ToString(Tail(bytes))

\* Variant: only the trailing null characters are removed.
RECURSIVE RemoveNulls_TrailingOnly(_)
RemoveNulls_TrailingOnly(chars) ==
    IF Len(chars) > 0 /\ chars[Len(chars)] = 0
    THEN RemoveNulls_TrailingOnly(SubSeq(chars, 1, Len(chars) - 1))
    ELSE chars

\* .replace(/\0/g, '')
RemoveNulls(chars) == SelectSeq(chars, LAMBDA c : c # 0)

\* encodedResult.substring(encodedResult.length - 64, encodedResult.length)
Last64(s) == SubSeq(s, (IF Len(s) - 64 < 0 THEN 0 ELSE Len(s) - 64) + 1, Len(s))

decodeRevertMessageFromTransaction(transaction, encodedResult) ==
    LET txStatus == transaction.contractRet
    IN  IF txStatus = "REVERT"
        THEN [kind |-> "return", txStatus |-> txStatus,
              revertMessage |->
                  RemoveNulls(Utf8ToString(BufferFromHex(Last64(encodedResult))))]
        ELSE [kind |-> "return", txStatus |-> txStatus, revertMessage |-> <<>>]

\* ------------------------------------------------------------------------
\* The ABI entries, call data and result strings the model is run on
\* ------------------------------------------------------------------------
Param(name, type) == [name |-> Str(name), type |-> type, components |-> Undefined]
Unnamed(type) == [name |-> Undefined, type |-> type, components |-> Undefined]
Tuple(name, type, components) ==
    [name |-> Str(name), type |-> type, components |-> Arr(components)]
Entry(type, name, inputs, outputs) ==
    [type |-> type, name |-> name, inputs |-> inputs, outputs |-> outputs]

N_transfer == <<"t", "r", "a", "n", "s", "f", "e", "r">>
N_nest == <<"n", "e", "s", "t">>
N_to == <<"t", "o">>
N_value == <<"v", "a", "l", "u", "e">>
N_dst == <<"d", "s", "t">>
N_wad == <<"w", "a", "d">>
N_id == <<"i", "d">>
N_who == <<"w", "h", "o">>

\* transfer(address,uint256) returning one unnamed bool
E_transfer ==
    Entry("function", Str(N_transfer),
          Arr(<<Param(N_to, T_address), Param(N_value, T_uint256)>>),
          Arr(<<Param(<<>>, T_bool)>>))
\* the same signature declared a second time, with other names and outputs
E_transferAgain ==
    Entry("function", Str(N_transfer),
          Arr(<<Param(N_dst, T_address), Param(N_wad, T_uint256)>>),
          Arr(<<Param(N_id, T_uint256), Param(N_who, T_address)>>))
\* an overload with one input and two outputs
E_transferTo ==
    Entry("function", Str(N_transfer),
          Arr(<<Param(N_to, T_address)>>),
          Arr(<<Unnamed(T_uint256), Param(N_value, T_uint256)>>))
\* an overload without inputs and without an outputs field
E_transferVoid == Entry("function", Str(N_transfer), Arr(<<>>), Undefined)
\* an event of the same name
E_transferEvent ==
    Entry("event", Str(N_transfer),
          Arr(<<Param(N_to, T_address)>>), Undefined)
E_constructor ==
    Entry("constructor", Undefined, Arr(<<Param(N_value, T_uint256)>>), Undefined)
E_fallback == Entry("fallback", Undefined, Undefined, Undefined)
\* nest((uint256,address),(uint256,(address,bool),(uint256)[],uint256[])[]) :
\* a tuple at the top level of the input list, and a tuple[] whose components
\* nest a tuple, a tuple[] and a plain array; returns a tuple[]
E_nest ==
    Entry("function", Str(N_nest),
          Arr(<<Tuple(N_wad, T_tuple,
                      <<Param(N_id, T_uint256), Param(N_who, T_address)>>),
                Tuple(N_to, T_tupleArray,
                      <<Param(N_id, T_uint256),
                        Tuple(N_who, T_tuple,
                              <<Param(N_to, T_address), Param(N_value, T_bool)>>),
                        Tuple(N_dst, T_tupleArray, <<Param(N_wad, T_uint256)>>),
                        Param(N_value, T_uintArray)>>)>>),
          Arr(<<Tuple(N_dst, T_tupleArray, <<Param(N_id, T_uint256)>>)>>))

Entries == {E_transfer, E_transferAgain, E_transferTo, E_transferVoid,
            E_transferEvent, E_constructor, E_fallback, E_nest}

\* ABI arrays of up to MaxAbiLen entries, no entry listed twice.
Abis ==
    UNION {{a \in [1..n -> Entries] : \A i, j \in 1..n : a[i] = a[j] => i = j} :
              n \in 0..MaxAbiLen}

\* k words of 64 hex characters; word j repeats the hex digit of j.
Words(k) == [i \in 1..(64 * k) |-> HexDigits[((((i - 1) \div 64) + 1) % 16) + 1]]

UnknownSelector == <<"d", "e", "a", "d", "b", "e", "e", "f">>

\* The selector the decoder computes for an entry, whatever its type.
SelectorOf(e) ==
    genMethodId(IF Truthy(e.name) THEN e.name ELSE Null, TypesOfList(e.inputs))

SelectorsFor(abi) == {SelectorOf(abi[i]) : i \in DOMAIN abi} \cup {UnknownSelector}

\* Call data for a contract with this ABI: with and without the 0x prefix, a
\* selector of one of its entries or a foreign one, and 0..MaxWords words of
\* arguments; and call data shorter than a selector.
CallDataFor(abi) ==
    {<<"0", "x">> \o sel \o Words(k) : sel \in SelectorsFor(abi), k \in 0..MaxWords}
    \cup {sel \o Words(MaxWords) : sel \in SelectorsFor(abi)}
    \cup {<<"0", "x">>, <<"0", "x", "d", "e", "a", "d">>}

\* Result strings: hex-prefixed return data, the empty string, an
\* unprefixed hex-encoded message, a string holding 0x past its start, a
\* string that is not hex, and prefixed garbage.
ResultStrings ==
    {<<"0", "x">> \o Words(k) : k \in 0..MaxWords}
    \cup {<<>>,
          <<"4", "f", "4", "b">>,
          <<"4", "f", "0", "x", "4", "b">>,
          <<"z", "z", "4">>,
          <<"0", "x", "z", "z">>}

Statuses == {"SUCCESS", "REVERT", "OUT_OF_ENERGY"}

Transaction(status, data, address) ==
    [contractRet |-> status, data |-> data, contract_address |-> address]

\* Byte pairs a revert payload's last bytes are drawn from.
TailPairs == {<<"0", "0">>, <<"4", "1">>, <<"6", "2">>, <<"c", "3">>, <<"A", "9">>}

RECURSIVE Flatten(_)
Flatten(seqs) == IF Len(seqs) = 0 THEN <<>> ELSE Head(seqs) \o Flatten(Tail(seqs))

Tails == {Flatten(t) : t \in UNION {[1..n -> TailPairs] : n \in 0..MaxTailBytes}}

Zeros(n) == [i \in 1..n |-> "0"]

\* Revert payloads around the 64-character window: shorter, exactly as long,
\* and longer, with and without the 0x prefix.
RevertStrings ==
    {p \o Zeros(n) \o t :
        p \in {<<>>, <<"0", "x">>}, n \in {0, 58, 60, 62, 126}, t \in Tails}

\* ------------------------------------------------------------------------
\* State
\* ------------------------------------------------------------------------
VARIABLES
    op,             \* the entry point that was called, "none" before the call
    pc,             \* "idle", the fetch being awaited, or "done"
    abi,            \* the abi argument / local
    data,           \* the data argument / local
    encodedResult,  \* the encodedResult argument / local
    transaction,    \* the transaction argument / local
    network,        \* what the node would answer to the three fetches
    fetches,        \* the fetches issued so far, each with its outcome
    decodes,        \* the decode steps a decode-by-id entry point has run
    ret             \* what the call returned or threw

vars == <<op, pc, abi, data, encodedResult, transaction, network, fetches,
          decodes, ret>>

NoReturn == [kind |-> "none"]
NoTransaction == Transaction("", <<>>, Undefined)
NoNetwork == [transaction |-> NoTransaction, abi |-> <<>>,
              contractResult |-> <<>>, resMessage |-> <<>>]
SomeAddress == <<"4", "1", "a", "b">>

\* ------------------------------------------------------------------------
\* The decoders called directly on already-fetched values
\* ------------------------------------------------------------------------
Arguments(a, d, r, t) ==
    /\ abi = a
    /\ data = d
    /\ encodedResult = r
    /\ transaction = t

\* Input decoding: every ABI with every call data for it.
InputCase ==
    \E a \in Abis : \E d \in CallDataFor(a) :
        Arguments(a, d, <<"0", "x">> \o Words(1),
                  Transaction("SUCCESS", <<>>, Str(SomeAddress)))

\* Output decoding: every ABI, a call of each selector with all its
\* argument words, and every result string.
ResultCase ==
    \E a \in Abis : \E sel \in SelectorsFor(a) : \E r \in ResultStrings :
        Arguments(a, <<"0", "x">> \o sel \o Words(MaxWords), r,
                  Transaction("SUCCESS", <<>>, Str(SomeAddress)))

\* Revert extraction: every status with every revert payload.
RevertCase ==
    \E st \in Statuses : \E r \in RevertStrings :
        Arguments(<<>>, <<"0", "x">>, r, Transaction(st, <<>>, Str(SomeAddress)))

Init ==
    /\ op = "none"
    /\ pc = "idle"
    /\ (InputCase \/ ResultCase \/ RevertCase)
    /\ network = NoNetwork
    /\ fetches = <<>>
    /\ decodes = <<>>
    /\ ret = NoReturn

DecodeInputFromData ==
    /\ pc = "idle"
    /\ op' = "decodeInputFromData"
    /\ ret' = decodeInputFromData(data, abi)
    /\ pc' = "done"
    /\ UNCHANGED <<abi, data, encodedResult, transaction, network, fetches, decodes>>

DecodeResultFromData ==
    /\ pc = "idle"
    /\ op' = "decodeResultFromData"
    /\ ret' = decodeResultFromData(data, encodedResult, abi)
    /\ pc' = "done"
    /\ UNCHANGED <<abi, data, encodedResult, transaction, network, fetches, decodes>>

DecodeRevertMessageFromTransaction ==
    /\ pc = "idle"
    /\ op' = "decodeRevertMessageFromTransaction"
    /\ ret' = decodeRevertMessageFromTransaction(transaction, encodedResult)
    /\ pc' = "done"
    /\ UNCHANGED <<abi, data, encodedResult, transaction, network, fetches, decodes>>

\* ------------------------------------------------------------------------
\* The decode-by-id entry points.  Each await is one state: the fetch has
\* been issued and the node has not answered yet.
\* ------------------------------------------------------------------------
Fetch(name) == [name |-> name, outcome |-> "pending"]

\* The log with the pending fetch settled.
Settled(log, outcome) == [log EXCEPT ![Len(log)].outcome = outcome]

\* catch (err) { throw new Error(err) }
ThrowError(why) == [kind |-> "throw", error |-> why]
Rethrown(result) == IF result.kind = "throw" THEN ThrowError(result.error) ELSE result

ByIdAbis == {<<>>, <<E_transfer>>, <<E_transferVoid, E_transferTo>>}

\* What the node holds: the transaction record, the contract's ABI and the
\* transaction info (contractResult[0] and resMessage).
Networks ==
    UNION {{[transaction |-> Transaction(st, sel \o Words(MaxWords), addr),
             abi |-> a, contractResult |-> cr, resMessage |-> <<"4", "f", "4", "b">>] :
               st \in Statuses, sel \in SelectorsFor(a),
               addr \in {Str(SomeAddress), Undefined},
               cr \in {<<>>, Words(1), Zeros(60) \o <<"4", "1", "0", "0">>}} :
              a \in ByIdAbis}

InitById ==
    /\ op = "none"
    /\ pc = "idle"
    /\ abi = <<>>
    /\ data = <<>>
    /\ encodedResult = <<>>
    /\ transaction = NoTransaction
    /\ network \in Networks
    /\ fetches = <<>>
    /\ decodes = <<>>
    /\ ret = NoReturn

\* decodeResultById, decodeInputById or decodeRevertMessage is called: each
\* starts by awaiting _getTransaction.
CallById ==
    /\ pc = "idle"
    /\ \E name \in {"decodeResultById", "decodeInputById", "decodeRevertMessage"} :
           op' = name
    /\ pc' = "getTransaction"
    /\ fetches' = <<Fetch("getTransaction")>>
    /\ UNCHANGED <<abi, data, encodedResult, transaction, network, decodes, ret>>

\* Variant: the failure is swallowed and the entry point goes on to decode.
FetchFails_GoesOnToDecode ==
    /\ pc \in {"getTransaction", "getContract", "getTransactionInfo"}
    /\ ret' = Rethrown(decodeInputFromData(data, abi))
    /\ decodes' = Append(decodes, "decodeInputFromData")
    /\ fetches' = Settled(fetches, "failed")
    /\ pc' = "done"
    /\ UNCHANGED <<op, abi, data, encodedResult, transaction, network>>

\* A fetch is rejected by the node, or _getTransaction / _getHexEncodedResult
\* finds an empty object, or _getContractABI finds contract.Error: the helper
\* throws, and the entry point's catch rethrows.
FetchFails ==
    /\ pc \in {"getTransaction", "getContract", "getTransactionInfo"}
    /\ \E why \in {"rejected", "not found"} : ret' = ThrowError(why)
    /\ fetches' = Settled(fetches, "failed")
    /\ pc' = "done"
    /\ UNCHANGED <<op, abi, data, encodedResult, transaction, network, decodes>>

\* _getTransaction resolves.  decodeResultById and decodeInputById build data
\* and, with a contract address, await _getContractABI; decodeRevertMessage
\* awaits _getHexEncodedResult for a REVERT and decodes at once otherwise.
GetTransactionReturns ==
    /\ pc = "getTransaction"
    /\ transaction' = network.transaction
    /\ data' = IF op = "decodeRevertMessage" THEN data
               ELSE <<"0", "x">> \o network.transaction.data
    /\ IF network.transaction.contract_address.tag = "undefined"
       THEN /\ ret' = ThrowError("No Contract found for this transaction hash.")
            /\ pc' = "done"
            /\ fetches' = Settled(fetches, "ok")
            /\ UNCHANGED <<encodedResult, decodes>>
       ELSE IF op # "decodeRevertMessage"
       THEN /\ pc' = "getContract"
            /\ fetches' = Append(Settled(fetches, "ok"), Fetch("getContract"))
            /\ UNCHANGED <<encodedResult, decodes, ret>>
       ELSE IF network.transaction.contractRet = "REVERT"
       THEN /\ pc' = "getTransactionInfo"
            /\ fetches' = Append(Settled(fetches, "ok"), Fetch("getTransactionInfo"))
            /\ UNCHANGED <<encodedResult, decodes, ret>>
       ELSE /\ encodedResult' = <<>>
            /\ ret' = Rethrown(decodeRevertMessageFromTransaction(
                                   network.transaction, <<>>))
            /\ decodes' = Append(decodes, "decodeRevertMessageFromTransaction")
            /\ pc' = "done"
            /\ fetches' = Settled(fetches, "ok")
    /\ UNCHANGED <<op, abi, network>>

\* _getContractABI resolves with contract.abi.entrys.  decodeResultById goes
\* on to await _getHexEncodedResult; decodeInputById decodes.
GetContractReturns ==
    /\ pc = "getContract"
    /\ abi' = network.abi
    /\ IF op = "decodeResultById"
       THEN /\ pc' = "getTransactionInfo"
            /\ fetches' = Append(Settled(fetches, "ok"), Fetch("getTransactionInfo"))
            /\ UNCHANGED <<decodes, ret>>
       ELSE /\ ret' = Rethrown(decodeInputFromData(data, network.abi))
            /\ decodes' = Append(decodes, "decodeInputFromData")
            /\ pc' = "done"
            /\ fetches' = Settled(fetches, "ok")
    /\ UNCHANGED <<op, data, encodedResult, transaction, network>>

\* '' == transaction.contractResult[0] ? transaction.resMessage
\*                                     : '0x' + transaction.contractResult[0]
HexEncodedResult(info) ==
    IF info.contractResult = <<>> THEN info.resMessage
    ELSE <<"0", "x">> \o info.contractResult

\* _getHexEncodedResult resolves: the last fetch of decodeResultById and of
\* decodeRevertMessage, followed by the decode.
GetTransactionInfoReturns ==
    /\ pc = "getTransactionInfo"
    /\ encodedResult' = HexEncodedResult(network)
    /\ IF op = "decodeResultById"
       THEN /\ ret' = Rethrown(decodeResultFromData(data, HexEncodedResult(network), abi))
            /\ decodes' = Append(decodes, "decodeResultFromData")
       ELSE /\ ret' = Rethrown(decodeRevertMessageFromTransaction(
                                   transaction, HexEncodedResult(network)))
            /\ decodes' = Append(decodes, "decodeRevertMessageFromTransaction")
    /\ pc' = "done"
    /\ fetches' = Settled(fetches, "ok")
    /\ UNCHANGED <<op, abi, data, transaction, network>>

NextById ==
    \/ CallById
    \/ FetchFails
    \/ GetTransactionReturns
    \/ GetContractReturns
    \/ GetTransactionInfoReturns

SpecById == InitById /\ [][NextById]_vars

Next ==
    \/ DecodeInputFromData
    \/ DecodeResultFromData
    \/ DecodeRevertMessageFromTransaction

Spec == Init /\ [][Next]_vars

\* ------------------------------------------------------------------------
\* Properties
\* ------------------------------------------------------------------------
\* The entries that take part in selector matching, in array order.
Candidates(a) == {i \in DOMAIN a : a[i].type \notin {"constructor", "event"}}

\* The candidates whose recomputed selector is the call data's selector.
Matches(d, a) == {i \in Candidates(a) : SelectorOf(a[i]) = MethodIdOf(d)}

FirstOf(S) == CHOOSE i \in S : \A j \in S : i <= j
LastOf(S) == CHOOSE i \in S : \A j \in S : i >= j

MethodOf(e) == IF Truthy(e.name) THEN e.name ELSE Null
ListLen(list) == IF Truthy(list) THEN Len(list.items) ELSE 0
RawTypes(list) == [i \in 1..ListLen(list) |-> Str(list.items[i].type)]
BeginsWith0x(s) == Len(s) >= 2 /\ s[1] = "0" /\ s[2] = "x"
CodecRunOnResult == \E k \in DOMAIN ret.codec : ret.codec[k].on = "result"

\* C1: when no candidate entry's selector equals the call data's first four
\* bytes, decodeInputFromData does not raise and returns methodName null,
\* empty inputNames and inputTypes and a decodedInput of _length 0 without
\* values, and the ABI codec is never invoked.
C1_NoMatchInputIsSentinel ==
    (op = "decodeInputFromData" /\ Matches(data, abi) = {}) =>
        /\ ret.kind = "return"
        /\ ret.methodName = Null
        /\ Len(ret.inputNames) = 0
        /\ Len(ret.inputTypes) = 0
        /\ ret.decodedInput.length = 0
        /\ ret.decodedInput.values = <<>>
        /\ ret.codec = <<>>

\* C1 witness: a non-empty ABI whose only entry with the call's selector is
\* an event, decoded to the sentinel.
C1_Witness ==
    /\ op = "decodeInputFromData"
    /\ Matches(data, abi) = {}
    /\ \E i \in DOMAIN abi :
           abi[i].type = "event" /\ SelectorOf(abi[i]) = MethodIdOf(data)
    /\ Candidates(abi) # {}
    /\ ret.kind = "return"
    /\ ret.methodName = Null

\* C2: without a selector match decodeResultFromData does not raise either:
\* it returns methodName null and empty name, type and value lists.
C2_NoMatchResultIsSentinel ==
    (op = "decodeResultFromData" /\ Matches(data, abi) = {}) =>
        /\ ret.kind = "return"
        /\ ret.methodName = Null
        /\ Len(ret.outputNames) = 0
        /\ Len(ret.outputTypes) = 0
        /\ ret.decodedOutput.tag = "object"
        /\ ret.decodedOutput.length = 0

\* C3: when the selector matches a function entry without an outputs field,
\* decodeResultFromData short-circuits for every result string: it returns
\* the method name, empty outputNames and outputTypes and a decodedOutput of
\* _length 0, without the codec or the fallback path seeing the result.
C3_VoidShortCircuits ==
    (/\ op = "decodeResultFromData"
     /\ Matches(data, abi) # {}
     /\ \A i \in Matches(data, abi) :
            abi[i].type = "function" /\ ~Truthy(abi[i].outputs)) =>
        /\ ret.kind = "return"
        /\ ret.path = "void"
        /\ ret.methodName = abi[LastOf(Matches(data, abi))].name
        /\ Len(ret.outputNames) = 0
        /\ Len(ret.outputTypes) = 0
        /\ ret.decodedOutput.tag = "object"
        /\ ret.decodedOutput.length = 0
        /\ ~CodecRunOnResult

\* The window of a revert payload: its last 64 characters, or all of it.
\* Hex decoding reads the window pair by pair and ends at the first pair that
\* is not hex (the 0x prefix, when the payload has at most 64 characters).
WindowLen == IF Len(encodedResult) < 64 THEN Len(encodedResult) ELSE 64
WindowChar(i) == encodedResult[Len(encodedResult) - WindowLen + i]
WindowByte(k) == 16 * HexVal(WindowChar(2 * k - 1)) + HexVal(WindowChar(2 * k))
WindowBadPairs ==
    {k \in 1..(WindowLen \div 2) :
        ~(IsHexChar(WindowChar(2 * k - 1)) /\ IsHexChar(WindowChar(2 * k)))}
WindowPairs ==
    IF WindowBadPairs = {} THEN WindowLen \div 2 ELSE FirstOf(WindowBadPairs) - 1
WindowIsAscii == \A k \in 1..WindowPairs : WindowByte(k) < 128
RECURSIVE NonNullWindowBytes(_)
NonNullWindowBytes(k) ==
    IF k = 0 THEN <<>>
    ELSE IF WindowByte(k) = 0 THEN NonNullWindowBytes(k - 1)
         ELSE Append(NonNullWindowBytes(k - 1), WindowByte(k))

\* C4: decodeRevertMessageFromTransaction returns the recorded contractRet
\* unchanged; the message is empty unless the status is REVERT; for REVERT
\* it is the text of the bytes in the last 64 hex characters of the result
\* (all of it when shorter) with every null character removed.
C4_RevertMessage ==
    op = "decodeRevertMessageFromTransaction" =>
        /\ ret.kind = "return"
        /\ ret.txStatus = transaction.contractRet
        /\ transaction.contractRet # "REVERT" => ret.revertMessage = <<>>
        /\ transaction.contractRet = "REVERT" =>
               /\ \A i \in DOMAIN ret.revertMessage : ret.revertMessage[i] # 0
               /\ WindowIsAscii => ret.revertMessage = NonNullWindowBytes(WindowPairs)

\* C4 witness: a REVERT payload longer than the window whose window holds
\* null bytes before and after a character.
C4_Witness ==
    /\ op = "decodeRevertMessageFromTransaction"
    /\ transaction.contractRet = "REVERT"
    /\ Len(encodedResult) > 64
    /\ WindowPairs = 32
    /\ WindowIsAscii
    /\ WindowByte(1) = 0
    /\ WindowByte(32) = 0
    /\ ret.revertMessage = <<65>>

\* C5: in every result of decodeInputFromData and decodeResultFromData the
\* names, the types and the values have one cardinality, that of the matched
\* entry's input (output) list, which the values' _length equals; all are
\* empty without an outputs list.
C5_SameCardinality ==
    /\ (op = "decodeInputFromData" /\ ret.kind = "return") =>
           \E n \in {0} \cup {ListLen(abi[i].inputs) : i \in Matches(data, abi)} :
               /\ Matches(data, abi) = {} => n = 0
               /\ Len(ret.inputNames) = n
               /\ Len(ret.inputTypes) = n
               /\ ret.decodedInput.length = n
               /\ Len(ret.decodedInput.values) = n
    /\ (op = "decodeResultFromData" /\ ret.kind = "return") =>
           \E n \in {0} \cup {ListLen(abi[i].outputs) : i \in Matches(data, abi)} :
               /\ Len(ret.outputNames) = n
               /\ Len(ret.outputTypes) = n
               /\ ret.decodedOutput.tag = "object"
               /\ ret.decodedOutput.length = n
               /\ Len(ret.decodedOutput.values) = n

\* C6: on a matched function with an outputs list, a result string that does
\* not begin with 0x takes the hex-pair-to-character path and the codec never
\* sees it; the codec is invoked only for strings that begin with 0x.
C6_PrefixDecidesThePath ==
    (/\ op = "decodeResultFromData"
     /\ Matches(data, abi) # {}
     /\ \A i \in DOMAIN abi :
            abi[i].type = "function" /\ Truthy(abi[i].outputs)) =>
        /\ CodecRunOnResult => BeginsWith0x(encodedResult)
        /\ ~BeginsWith0x(encodedResult) =>
               ret.kind = "return" /\ ret.path = "fallback"

C9_OutputsOfTheMatchedEntry ==
    (op = "decodeResultFromData" /\ ret.kind = "return" /\ Matches(data, abi) # {}) =>
        \E i \in Matches(data, abi) :
            /\ ret.path = "void" <=> ~Truthy(abi[i].outputs)
            /\ ret.path # "void" =>
                   /\ ret.outputTypes = RawTypes(abi[i].outputs)
                   /\ ret.outputNames = NullIfFalsy(NamesOfList(abi[i].outputs))

\* The canonical form of a parameter: tuples expanded structurally.
RECURSIVE CanonicalType(_)
CanonicalList(params) ==
    <<"(">> \o JoinComma([i \in DOMAIN params |-> Str(CanonicalType(params[i]))])
    \o <<")">>
CanonicalType(p) ==
    IF p.type = T_tuple THEN CanonicalList(p.components.items)
    ELSE IF p.type = T_tupleArray
         THEN CanonicalList(p.components.items) \o <<"[", "]">>
         ELSE p.type

CandidateSeq(a) == SelectSeq(a, LAMBDA e : e.type \notin {"constructor", "event"})

\* C10: the signature hashed for a function entry renders a tuple parameter
\* as its parenthesised, comma-joined canonical components, a tuple[] as
\* that followed by [], and every other type unchanged, at every depth.
C10_CanonicalSignatureIsHashed ==
    op = "decodeInputFromData" =>
        \A k \in DOMAIN ret.hashed :
            LET e == CandidateSeq(abi)[k]
            IN  e.type = "function" =>
                    ret.hashed[k] = e.name.s \o CanonicalList(e.inputs.items)

\* The fetches each entry point issues, in order.
FetchOrder(name) ==
    CASE name = "decodeResultById" ->
             <<"getTransaction", "getContract", "getTransactionInfo">>
      [] name = "decodeInputById" -> <<"getTransaction", "getContract">>
      [] name = "decodeRevertMessage" -> <<"getTransaction", "getTransactionInfo">>
      [] OTHER -> <<>>

\* C7: a decode-by-id entry point issues its fetches one after another, each
\* only after the previous one completed successfully; when a fetch fails or
\* the transaction has no contract address it ends by throwing, issues no
\* later fetch and never runs the decode step.
C7_FetchesInSequenceAndFailFast ==
    /\ Len(fetches) <= Len(FetchOrder(op))
    /\ \A k \in DOMAIN fetches : fetches[k].name = FetchOrder(op)[k]
    /\ \A k \in 1..(Len(fetches) - 1) : fetches[k].outcome = "ok"
    /\ \A k \in DOMAIN fetches : fetches[k].outcome = "pending" <=>
                                     (k = Len(fetches) /\ pc = fetches[k].name)
    /\ (\E k \in DOMAIN fetches : fetches[k].outcome = "failed") =>
           /\ pc = "done"
           /\ ret.kind = "throw"
           /\ decodes = <<>>
    /\ (/\ Len(fetches) >= 1
        /\ fetches[1].outcome = "ok"
        /\ network.transaction.contract_address = Undefined) =>
           /\ pc = "done"
           /\ ret.kind = "throw"
           /\ Len(fetches) = 1
           /\ decodes = <<>>
    /\ decodes # <<>> =>
           /\ Len(decodes) = 1
           /\ pc = "done"
           /\ \A k \in DOMAIN fetches : fetches[k].outcome = "ok"
    /\ (pc = "done" /\ ret.kind = "return") => decodes # <<>>

\* C7 witness: decodeResultById has its second fetch fail after the first
\* succeeded, and has thrown without decoding.
C7_Witness ==
    /\ op = "decodeResultById"
    /\ pc = "done"
    /\ Len(fetches) = 2
    /\ fetches[1].outcome = "ok"
    /\ fetches[2].outcome = "failed"
    /\ ret.kind = "throw"
    /\ decodes = <<>>

====
